---- MODULE Spec2Model ----
(***************************************************************************)
(* akame: a monitor that polls the slow log of a Redis server and prints   *)
(* every entry it has not printed before (src/src/main.rs).                *)
(*                                                                         *)
(* Strings the program inspects character by character (the version       *)
(* string, the command tokens) are sequences of one-character strings.     *)
(* A u64 the program casts to i64 (the timestamp) is four 16-bit limbs,    *)
(* most significant first, so that the cast keeps its 64-bit width.        *)
(***************************************************************************)
EXTENDS Integers, Sequences, FiniteSets, TLC

VARIABLES
    pc,                  \* where main is: connect, probe, version, polling, sleep, aborted
    panic,               \* the message of the panic that aborted the process, or NoPanic
    sent,                \* the commands sent over the connection so far
    info_queries,        \* how many INFO queries were sent
    info,                \* get_version's info while it runs, and where it panicked
    redis_version,       \* Option<RedisVersion> returned by get_version
    redis_version_major, \* main's redis_version_major
    all_slowlogs,        \* main's HashMap<u64, RedisSlowlog>
    raw_slowlogs,        \* the reply to the last SLOWLOG GET
    slowlogs,            \* the Vec<RedisSlowlog> returned by the last get_slowlogs
    output               \* the lines written to standard output

vars == <<pc, panic, sent, info_queries, info, redis_version, redis_version_major,
          all_slowlogs, raw_slowlogs, slowlogs, output>>

(***************************************************************************)
(* Bounds of the model                                                     *)
(***************************************************************************)
\* The longest reply to SLOWLOG GET (the program asks for at most 100 records).
MaxBatch == 2
\* Entry ids are 1..MaxId.
MaxId == 2

Ids == 1..MaxId

None == [some |-> FALSE]
Some(v) == [some |-> TRUE, value |-> v]
NoPanic == "none"
NoValue == <<>>

(***************************************************************************)
(* Characters and strings                                                  *)
(***************************************************************************)
Digits == <<"0", "1", "2", "3", "4", "5", "6", "7", "8", "9">>
Lower == <<"a", "b", "c", "d", "e", "f", "g", "h", "i", "j", "k", "l", "m",
           "n", "o", "p", "q", "r", "s", "t", "u", "v", "w", "x", "y", "z">>
Upper == <<"A", "B", "C", "D", "E", "F", "G", "H", "I", "J", "K", "L", "M",
           "N", "O", "P", "Q", "R", "S", "T", "U", "V", "W", "X", "Y", "Z">>

IndexIn(seq, c) == CHOOSE i \in 1..Len(seq) : seq[i] = c
Occurs(seq, c) == \E i \in 1..Len(seq) : seq[i] = c

\* char::to_uppercase on the characters of the model: a lower-case ASCII letter
\* becomes its upper-case letter, every other character is kept.
LowerToUpper == [c \in {Lower[i] : i \in 1..Len(Lower)} |-> Upper[IndexIn(Lower, c)]]
UpperChar(c) == IF c \in DOMAIN LowerToUpper THEN LowerToUpper[c] ELSE c

\* str::to_uppercase
to_uppercase(s) == [i \in 1..Len(s) |-> UpperChar(s[i])]

\* str::split('.'): the pieces between the dots; n dots give n + 1 pieces,
\* empty pieces included.
RECURSIVE SplitFrom(_, _, _)
SplitFrom(s, i, piece) ==
    IF i > Len(s) THEN <<piece>>
    ELSE IF s[i] = "." THEN <<piece>> \o SplitFrom(s, i + 1, <<>>)
    ELSE SplitFrom(s, i + 1, Append(piece, s[i]))

split(s) == SplitFrom(s, 1, <<>>)

\* str::parse::<usize>: an optional '+' followed by at least one decimal digit,
\* read in base ten.  Err is None.  (The strings of the model are short; the
\* overflow error of a value above usize::MAX does not arise.)
RECURSIVE DigitsValue(_, _)
DigitsValue(s, acc) ==
    IF s = <<>> THEN acc
    ELSE DigitsValue(Tail(s), acc * 10 + (IndexIn(Digits, Head(s)) - 1))

parse_usize(s) ==
    LET body == IF s # <<>> /\ Head(s) = "+" THEN Tail(s) ELSE s
    IN IF body # <<>> /\ \A i \in 1..Len(body) : Occurs(Digits, body[i])
       THEN Some(DigitsValue(body, 0))
       ELSE None

(***************************************************************************)
(* get_version                                                             *)
(***************************************************************************)
\* Mutant: a part that is missing counts as 0.
ParseVersionLenient(version_str) ==
    LET v == split(version_str)
        part(i) == IF i <= Len(v) THEN parse_usize(v[i]) ELSE Some(0)
    IN IF ~part(1).some THEN [panic |-> "invalid major version"]
       ELSE IF ~part(2).some THEN [panic |-> "invalid minor version"]
       ELSE IF ~part(3).some THEN [panic |-> "invalid patch version"]
       ELSE [panic |-> NoPanic,
             version |-> [major |-> part(1).value,
                          minor |-> part(2).value,
                          patch |-> part(3).value]]

\* The result of get_version's else branch on a non-empty version string:
\* v[0], v[1], v[2] are indexed and parsed in this order, and the first index
\* out of range or parse error panics.
ParseVersion(version_str) ==
    LET v == split(version_str)
        part(i) == parse_usize(v[i])
    IN IF ~part(1).some THEN [panic |-> "invalid major version"]
       ELSE IF Len(v) < 2 THEN [panic |-> "index out of bounds"]
       ELSE IF ~part(2).some THEN [panic |-> "invalid minor version"]
       ELSE IF Len(v) < 3 THEN [panic |-> "index out of bounds"]
       ELSE IF ~part(3).some THEN [panic |-> "invalid patch version"]
       ELSE [panic |-> NoPanic,
             version |-> [major |-> part(1).value,
                          minor |-> part(2).value,
                          patch |-> part(3).value]]

\* The version strings a server may report.
VersionStrings ==
    { <<>>,
      <<"3", ".", "2", ".", "1", "2">>,
      <<"4", ".", "0", ".", "0">>,
      <<"4", ".", "0", ".", "0", ".", "1">>,
      <<"4", ".", "0", ".", "0", ".", "x">>,
      <<"+", "4", ".", "0", ".", "0">>,
      <<"6", ".", "2">>,
      <<"6">>,
      <<"6", ".", "2", ".", "x">>,
      <<"6", ".", "x", ".", "6">>,
      <<"x", ".", "2", ".", "6">>,
      <<"6", ".", ".", "6">>,
      <<"6", ".", "2", ".">>,
      <<"6", ".", "2", ".", "6", "-", "r", "c">> }

\* The replies to INFO server: a dictionary with or without a redis_version key.
InfoReplies ==
    {[has_version |-> FALSE, redis_version |-> <<>>]}
    \cup {[has_version |-> TRUE, redis_version |-> s] : s \in VersionStrings}

\* info.get("redis_version").unwrap_or_else(|| "".to_string())
VersionStr(reply) == IF reply.has_version THEN reply.redis_version ELSE <<>>

\* Mutant: no test for the empty string.
get_version_unguarded(reply) ==
    LET p == ParseVersion(VersionStr(reply))
    IN IF p.panic # NoPanic THEN [panic |-> p.panic, result |-> None]
       ELSE [panic |-> NoPanic, result |-> Some(p.version)]

\* get_version on a reply to INFO: None for an empty version string, else the
\* parsed version or a panic.
get_version(reply) ==
    LET version_str == VersionStr(reply)
    IN IF version_str = <<>> THEN [panic |-> NoPanic, result |-> None]
       ELSE LET p == ParseVersion(version_str)
            IN IF p.panic # NoPanic THEN [panic |-> p.panic, result |-> None]
               ELSE [panic |-> NoPanic, result |-> Some(p.version)]

(***************************************************************************)
(* 64-bit integers: four 16-bit limbs, most significant first              *)
(***************************************************************************)
LimbMax == 65535

\* a <= b for two limb sequences of the same length
RECURSIVE LimbsLeq(_, _)
LimbsLeq(a, b) ==
    IF a = <<>> THEN TRUE
    ELSE IF Head(a) # Head(b) THEN Head(a) < Head(b)
    ELSE LimbsLeq(Tail(a), Tail(b))

\* 2^64 - u for a u64 u > 0: the complement of every limb, plus one
RECURSIVE LimbsIncrement(_)
LimbsIncrement(a) ==
    IF a = <<>> THEN <<>>
    ELSE LET n == Len(a)
         IN IF a[n] < LimbMax THEN [a EXCEPT ![n] = a[n] + 1]
            ELSE Append(LimbsIncrement(SubSeq(a, 1, n - 1)), 0)

TwosComplement(u) == LimbsIncrement([i \in 1..Len(u) |-> LimbMax - u[i]])

\* `u as i64`: a u64 below 2^63 keeps its value, one from 2^63 up wraps to the
\* negative value u - 2^64.  An i64 is a sign and a magnitude.
as_i64(u) ==
    IF u[1] < 32768 THEN [neg |-> FALSE, mag |-> u]
    ELSE [neg |-> TRUE, mag |-> TwosComplement(u)]

\* The seconds NaiveDateTime::from_timestamp_opt accepts: those of the calendar
\* years -262144 to 262143 (chrono), 8210298412799 at most and -8334632937600
\* at least.
MaxTimestampSecs == <<0, 1911, 39915, 40703>>
MinTimestampSecsMagnitude == <<0, 1940, 36565, 59520>>

\* NaiveDateTime::from_timestamp_opt(secs, 0): Some(secs) for a second of the
\* calendar, None outside it.
from_timestamp_opt(secs) ==
    IF secs.neg
    THEN IF LimbsLeq(secs.mag, MinTimestampSecsMagnitude) THEN Some(secs) ELSE None
    ELSE IF LimbsLeq(secs.mag, MaxTimestampSecs) THEN Some(secs) ELSE None

(***************************************************************************)
(* Raw slow log records and their decoding                                 *)
(***************************************************************************)
\* Command tokens
TokGet == <<"G", "E", "T">>
TokKey == <<"k">>
TokSet == <<"s", "e", "t">>
TokSlowlogLower == <<"s", "l", "o", "w", "l", "o", "g">>
TokSlowlogUpper == <<"S", "L", "O", "W", "L", "O", "G">>
TokSlowlogMixed == <<"S", "l", "o", "w", "L", "o", "g">>
TokSlowlogX == <<"S", "L", "O", "W", "L", "O", "G", "X">>
TokInfoUpper == <<"I", "N", "F", "O">>
TokInfoLower == <<"i", "n", "f", "o">>
TokInform == <<"I", "N", "F", "O", "R", "M">>

\* lazy_static IGNORE_COMMANDS
IGNORE_COMMANDS == <<TokSlowlogUpper, TokInfoUpper>>

\* Timestamps a record may carry: 1700000000 (a second of 2023), 2^62 (beyond
\* the calendar), 2^64 - 1 (a u64 above i64::MAX).
TsValid == <<0, 0, 25939, 61696>>
TsBeyond == <<16384, 0, 0, 0>>
TsAllOnes == <<65535, 65535, 65535, 65535>>

\* Durations in microseconds: 1.5 ms, and 1 s + 2.5 ms.
DurShort == 1500
DurLong == 1002500

Address == "127.0.0.1:50000"

\* The fields after the id of the records a server may return: timestamp,
\* duration, command tokens.
Payloads ==
    { <<TsValid, DurShort, <<TokGet, TokKey>>>>,
      <<TsAllOnes, DurLong, <<TokSet, TokKey>>>>,
      <<TsBeyond, DurShort, <<TokGet, TokKey>>>>,
      <<TsValid, DurShort, <<TokSlowlogLower, TokGet>>>>,
      <<TsValid, DurShort, <<>>>> }

\* A raw record is the sequence of its fields: 4 fields from a server before
\* Redis 4.0, 6 fields (with the client's address and name) from 4.0 on.
RawRecords4 == {<<id>> \o p : id \in Ids, p \in Payloads}
RawRecords6 == {r \o <<Address, "cli">> : r \in RawRecords4}
\* A record cut short: fewer fields than either schema has.
Truncated == {<<1, TsValid, DurShort>>}

RECURSIVE SeqsUpTo(_, _)
SeqsUpTo(S, n) ==
    IF n = 0 THEN {<<>>}
    ELSE LET shorter == SeqsUpTo(S, n - 1)
         IN shorter \cup {Append(b, r) : b \in {x \in shorter : Len(x) = n - 1}, r \in S}

\* The replies to SLOWLOG GET: up to MaxBatch records, all of the shape of the
\* server's release, any of them possibly cut short.
Batches ==
    SeqsUpTo(RawRecords4 \cup Truncated, MaxBatch)
    \cup SeqsUpTo(RawRecords6 \cup Truncated, MaxBatch)

\* Duration::from_micros
from_micros(us) == [secs |-> us \div 1000000, nanos |-> (us % 1000000) * 1000]

\* Mutant: the extended schema from release 5 on (> for >=).
SchemaArityAbove4(version) == IF version > 4 THEN 6 ELSE 4

\* The number of fields of the tuple get_slowlogs decodes a record into.
SchemaArity(version) == IF version >= 4 THEN 6 ELSE 4

\* FromRedisValue for a tuple: Ok exactly for a record with the tuple's number
\* of fields.
Decodable(raw, version) == Len(raw) = SchemaArity(version)

\* The RedisSlowlog built from a decodable record (lines 58-79).
Decode(raw, version) ==
    [id |-> raw[1],
     timestamp |-> raw[2],
     exec_time |-> from_micros(raw[3]),
     cmd |-> raw[4],
     address |-> IF SchemaArity(version) = 6 THEN raw[5] ELSE "",
     client_name |-> IF SchemaArity(version) = 6 THEN raw[6] ELSE ""]

\* Vec::contains
Contains(vec, x) == \E i \in 1..Len(vec) : vec[i] = x

\* Mutant: the command name compared as it is spelled.
IgnoredAsSpelled(slowlog) == Contains(IGNORE_COMMANDS, slowlog.cmd[1])

\* The test of line 80 on a slowlog with a non-empty cmd.
Ignored(slowlog) == Contains(IGNORE_COMMANDS, to_uppercase(slowlog.cmd[1]))

\* Mutant of the loop of get_slowlogs: an ignored record ends the loop (break
\* for continue).
RECURSIVE DecodeAllBreak(_, _, _)
DecodeAllBreak(raws, version, acc) ==
    IF raws = <<>> THEN [panic |-> NoPanic, slowlogs |-> acc]
    ELSE LET raw == Head(raws)
         IN IF ~Decodable(raw, version)
            THEN [panic |-> "called Result::unwrap() on an Err value", at |-> raw]
            ELSE LET slowlog == Decode(raw, version)
                 IN IF slowlog.cmd = <<>>
                    THEN [panic |-> "index out of bounds", at |-> raw]
                    ELSE IF Ignored(slowlog)
                    THEN [panic |-> NoPanic, slowlogs |-> acc]
                    ELSE DecodeAllBreak(Tail(raws), version, Append(acc, slowlog))

\* Mutant: the first token read with first(), a record without one passing
\* the filter.
RECURSIVE DecodeAllLenient(_, _, _)
DecodeAllLenient(raws, version, acc) ==
    IF raws = <<>> THEN [panic |-> NoPanic, slowlogs |-> acc]
    ELSE LET raw == Head(raws)
         IN IF ~Decodable(raw, version)
            THEN [panic |-> "called Result::unwrap() on an Err value", at |-> raw]
            ELSE LET slowlog == Decode(raw, version)
                 IN IF slowlog.cmd # <<>> /\ Ignored(slowlog)
                    THEN DecodeAllLenient(Tail(raws), version, acc)
                    ELSE DecodeAllLenient(Tail(raws), version, Append(acc, slowlog))

\* get_slowlogs' loop over a reply, record by record: a record that does not
\* decode and a record with no command token panic; an ignored one is left
\* out; the others are pushed in order.
RECURSIVE DecodeAll(_, _, _)
DecodeAll(raws, version, acc) ==
    IF raws = <<>> THEN [panic |-> NoPanic, slowlogs |-> acc]
    ELSE LET raw == Head(raws)
         IN IF ~Decodable(raw, version)
            THEN [panic |-> "called Result::unwrap() on an Err value", at |-> raw]
            ELSE LET slowlog == Decode(raw, version)
                 IN IF slowlog.cmd = <<>>
                    THEN [panic |-> "index out of bounds", at |-> raw]
                    ELSE IF Ignored(slowlog)
                    THEN DecodeAll(Tail(raws), version, acc)
                    ELSE DecodeAll(Tail(raws), version, Append(acc, slowlog))

\* get_slowlogs on the reply to SLOWLOG GET num.
get_slowlogs(raws, version) == DecodeAll(raws, version, <<>>)

(***************************************************************************)
(* main's loop over the slowlogs of one poll                               *)
(***************************************************************************)
\* The number printed by {:.1} for exec_time.subsec_nanos() as f64 * 1e-6, in
\* tenths of a millisecond.
PrintedTime(exec_time) == (exec_time.nanos + 50000) \div 100000

\* The line of lines 114-122.
EntryLine(slowlog, dt) ==
    [kind |-> "entry", dt |-> dt, id |-> slowlog.id,
     time |-> PrintedTime(slowlog.exec_time), cmd |-> slowlog.cmd,
     address |-> slowlog.address, name |-> slowlog.client_name]

HasKey(map, k) == k \in DOMAIN map

\* Mutant: the insert of line 123 left out.
InsertForgotten(map, k, v) == map

\* Mutant: the map rebuilt with the new entry alone.
InsertIntoFresh(map, k, v) == [x \in {k} |-> v]

\* HashMap::insert
Insert(map, k, v) == [x \in DOMAIN map \cup {k} |-> IF x = k THEN v ELSE map[x]]

\* Mutant: the id is inserted before the timestamp is looked at.
ReportOneInsertFirst(st, slowlog) ==
    IF HasKey(st.all, slowlog.id) THEN st
    ELSE LET ndt == from_timestamp_opt(as_i64(slowlog.timestamp))
             all == Insert(st.all, slowlog.id, slowlog)
         IN IF ~ndt.some THEN [all |-> all, out |-> st.out]
            ELSE [all |-> all, out |-> Append(st.out, EntryLine(slowlog, ndt.value))]

\* Mutant: the line is printed and the slowlog is dropped instead of moved
\* into the map.
ReportOnePrintOnly(st, slowlog) ==
    IF HasKey(st.all, slowlog.id) THEN st
    ELSE LET ndt == from_timestamp_opt(as_i64(slowlog.timestamp))
         IN IF ~ndt.some THEN st
            ELSE [all |-> st.all,
                  out |-> Append(st.out, EntryLine(slowlog, ndt.value))]

\* Mutant: a slowlog whose id is in the map replaces the one stored there.
ReportOneOverwrite(st, slowlog) ==
    IF HasKey(st.all, slowlog.id)
    THEN [all |-> Insert(st.all, slowlog.id, slowlog), out |-> st.out]
    ELSE LET ndt == from_timestamp_opt(as_i64(slowlog.timestamp))
         IN IF ~ndt.some THEN st
            ELSE [all |-> Insert(st.all, slowlog.id, slowlog),
                  out |-> Append(st.out, EntryLine(slowlog, ndt.value))]

\* One iteration of the for loop (lines 108-124) from the state st.
ReportOne(st, slowlog) ==
    IF HasKey(st.all, slowlog.id) THEN st
    ELSE LET ndt == from_timestamp_opt(as_i64(slowlog.timestamp))
         IN IF ~ndt.some THEN st
            ELSE [all |-> Insert(st.all, slowlog.id, slowlog),
                  out |-> Append(st.out, EntryLine(slowlog, ndt.value))]

\* Mutant: a slowlog with an invalid timestamp ends the loop (break for
\* continue).
RECURSIVE ReportAllBreak(_, _)
ReportAllBreak(st, logs) ==
    IF logs = <<>> THEN st
    ELSE IF ~HasKey(st.all, Head(logs).id)
            /\ ~from_timestamp_opt(as_i64(Head(logs).timestamp)).some
    THEN st
    ELSE ReportAllBreak(ReportOne(st, Head(logs)), Tail(logs))

\* Mutant: the slowlogs taken from the back of the vector (pop).
RECURSIVE ReportAllFromBack(_, _)
ReportAllFromBack(st, logs) ==
    IF logs = <<>> THEN st
    ELSE ReportAllFromBack(ReportOne(st, logs[Len(logs)]), SubSeq(logs, 1, Len(logs) - 1))

\* The for loop of lines 107-125 over the slowlogs, in order.
RECURSIVE ReportAll(_, _)
ReportAll(st, logs) ==
    IF logs = <<>> THEN st
    ELSE ReportAll(ReportOne(st, Head(logs)), Tail(logs))

(***************************************************************************)
(* The process                                                             *)
(***************************************************************************)
NoInfo == [has_version |-> FALSE, redis_version |-> <<>>]

Init ==
    /\ pc = "connect"
    /\ panic = [msg |-> NoPanic, at |-> NoValue]
    /\ sent = {}
    /\ info_queries = 0
    /\ info = NoInfo
    /\ redis_version = None
    /\ redis_version_major = 0
    /\ all_slowlogs = <<>>
    /\ raw_slowlogs = <<>>
    /\ slowlogs = <<>>
    /\ output = <<>>

\* Mutant: the error is noted and the loop goes on.
AbortAndGoOn(msg, at) ==
    /\ pc' = "polling"
    /\ panic' = [msg |-> msg, at |-> at]

\* A panic: the process ends with a message, which for a record that does not
\* decode shows the record.
Abort(msg, at) ==
    /\ pc' = "aborted"
    /\ panic' = [msg |-> msg, at |-> at]

\* Lines 89-92: open the client and get a connection, or panic.
Connect ==
    /\ pc = "connect"
    /\ \E r \in {"ok", "fail connect redis", "fail to get redis connection"} :
          IF r = "ok"
          THEN pc' = "probe" /\ panic' = panic
          ELSE Abort(r, NoValue)
    /\ UNCHANGED <<sent, info_queries, info, redis_version, redis_version_major,
                   all_slowlogs, raw_slowlogs, slowlogs, output>>

\* Lines 22-25: get_version sends INFO server; the query fails or returns a
\* reply.
QueryInfo ==
    /\ pc = "probe"
    /\ sent' = sent \cup {"INFO server"}
    /\ info_queries' = info_queries + 1
    /\ \/ /\ Abort("fail info command", NoValue)
          /\ info' = info
       \/ \E reply \in InfoReplies :
             /\ pc' = "version"
             /\ panic' = panic
             /\ info' = reply
    /\ UNCHANGED <<redis_version, redis_version_major, all_slowlogs,
                   raw_slowlogs, slowlogs, output>>

VersionLine(v) ==
    IF v.some THEN [kind |-> "version", known |-> TRUE, version |-> v.value]
    ELSE [kind |-> "version", known |-> FALSE]

\* Lines 26-37 and 93-104: the rest of get_version on the reply, and on its
\* return the version line, redis_version_major and the empty map.
Probe ==
    /\ pc = "version"
    /\ LET r == get_version(info)
       IN IF r.panic # NoPanic
          THEN /\ Abort(r.panic, NoValue)
               /\ UNCHANGED <<info, redis_version, redis_version_major, output>>
          ELSE /\ pc' = "polling"
               /\ panic' = panic
               /\ info' = NoInfo
               /\ redis_version' = r.result
               /\ output' = Append(output, VersionLine(r.result))
               /\ redis_version_major' =
                      IF r.result.some THEN r.result.value.major ELSE 0
    /\ all_slowlogs' = <<>>
    /\ UNCHANGED <<sent, info_queries, raw_slowlogs, slowlogs>>

\* Mutant: one loop that decodes, filters, checks and reports a record before
\* it decodes the next one.
RECURSIVE Pipeline(_, _, _)
Pipeline(st, raws, version) ==
    IF raws = <<>> THEN [panic |-> NoPanic, st |-> st]
    ELSE LET r == DecodeAll(<<Head(raws)>>, version, <<>>)
         IN IF r.panic # NoPanic THEN [panic |-> r.panic, at |-> r.at, st |-> st]
            ELSE Pipeline(ReportAll(st, r.slowlogs), Tail(raws), version)

PollBatchPipelined(batch) ==
    LET r == Pipeline([all |-> all_slowlogs, out |-> output], batch, redis_version_major)
    IN IF r.panic # NoPanic
       THEN /\ Abort(r.panic, r.at)
            /\ all_slowlogs' = r.st.all
            /\ output' = r.st.out
            /\ UNCHANGED <<raw_slowlogs, slowlogs>>
       ELSE /\ pc' = "sleep"
            /\ panic' = panic
            /\ raw_slowlogs' = batch
            /\ slowlogs' = get_slowlogs(batch, redis_version_major).slowlogs
            /\ all_slowlogs' = r.st.all
            /\ output' = r.st.out

\* Mutant: the ids of the records the filter left out are put into the map.
RECURSIVE InsertIgnored(_, _, _)
InsertIgnored(map, raws, version) ==
    IF raws = <<>> THEN map
    ELSE LET slowlog == Decode(Head(raws), version)
         IN InsertIgnored(IF Ignored(slowlog) /\ ~HasKey(map, slowlog.id)
                          THEN Insert(map, slowlog.id, slowlog)
                          ELSE map,
                          Tail(raws), version)

PollBatchRegisterIgnored(batch) ==
    LET r == get_slowlogs(batch, redis_version_major)
    IN IF r.panic # NoPanic
       THEN /\ Abort(r.panic, r.at)
            /\ UNCHANGED <<raw_slowlogs, slowlogs, all_slowlogs, output>>
       ELSE LET st == ReportAll([all |-> all_slowlogs, out |-> output], r.slowlogs)
            IN /\ pc' = "sleep"
               /\ panic' = panic
               /\ raw_slowlogs' = batch
               /\ slowlogs' = r.slowlogs
               /\ all_slowlogs' = InsertIgnored(st.all, batch, redis_version_major)
               /\ output' = st.out

\* get_slowlogs on the batch the server replied with, and then the for loop of
\* main over the slowlogs it returned (lines 57-85 and 107-125).
PollBatch(batch) ==
    LET r == get_slowlogs(batch, redis_version_major)
    IN IF r.panic # NoPanic
       THEN /\ Abort(r.panic, r.at)
            /\ UNCHANGED <<raw_slowlogs, slowlogs, all_slowlogs, output>>
       ELSE LET st == ReportAll([all |-> all_slowlogs, out |-> output], r.slowlogs)
            IN /\ pc' = "sleep"
               /\ panic' = panic
               /\ raw_slowlogs' = batch
               /\ slowlogs' = r.slowlogs
               /\ all_slowlogs' = st.all
               /\ output' = st.out

\* Lines 106-125, one turn of the loop up to the sleep: the SLOWLOG query of
\* get_slowlogs(&conn, 100, redis_version_major) fails or returns a batch.
Poll ==
    /\ pc = "polling"
    /\ sent' = sent \cup {"SLOWLOG GET 100"}
    /\ \/ /\ Abort("fail slowlog command", NoValue)
          /\ UNCHANGED <<raw_slowlogs, slowlogs, all_slowlogs, output>>
       \/ \E batch \in Batches : PollBatch(batch)
    /\ UNCHANGED <<info_queries, info, redis_version, redis_version_major>>

\* Mutant: the loop is left when a poll fetched nothing.
SleepUnlessIdle ==
    /\ pc = "sleep"
    /\ raw_slowlogs # <<>>
    /\ pc' = "polling"
    /\ raw_slowlogs' = <<>>
    /\ slowlogs' = <<>>
    /\ UNCHANGED <<panic, sent, info_queries, info, redis_version,
                   redis_version_major, all_slowlogs, output>>

\* Mutant: the loop body starts with the version probe.
SleepThenProbe ==
    /\ pc = "sleep"
    /\ pc' = "probe"
    /\ raw_slowlogs' = <<>>
    /\ slowlogs' = <<>>
    /\ UNCHANGED <<panic, sent, info_queries, info, redis_version,
                   redis_version_major, all_slowlogs, output>>

\* Line 126: the sleep, after which the loop starts over; the slowlogs of the
\* poll are gone.
Sleep ==
    /\ pc = "sleep"
    /\ pc' = "polling"
    /\ raw_slowlogs' = <<>>
    /\ slowlogs' = <<>>
    /\ UNCHANGED <<panic, sent, info_queries, info, redis_version,
                   redis_version_major, all_slowlogs, output>>

Next == Connect \/ QueryInfo \/ Probe \/ Poll \/ Sleep

Spec == Init /\ [][Next]_vars

\* The process is one thread that runs until it panics: a step that can be
\* taken is taken.
LiveSpec ==
    /\ Init
    /\ [][Next]_vars
    /\ WF_vars(Connect)
    /\ WF_vars(QueryInfo)
    /\ WF_vars(Probe)
    /\ WF_vars(Poll)
    /\ WF_vars(Sleep)

(***************************************************************************)
(* The filter of get_slowlogs on one record: the process has started, the   *)
(* server's reply to the first SLOWLOG GET is one record with any command,  *)
(* and the first turn of the loop runs on it.                              *)
(***************************************************************************)
\* The longest command of a record of FilterSpec.
MaxCmdLen == 2

FilterTokens ==
    {TokGet, TokKey, TokSlowlogLower, TokSlowlogUpper, TokSlowlogMixed,
     TokSlowlogX, TokInfoUpper, TokInfoLower, TokInform}

FilterRecords4 ==
    {<<id, TsValid, DurShort, cmd>> : id \in Ids, cmd \in SeqsUpTo(FilterTokens, MaxCmdLen)}
FilterRecords6 == {r \o <<Address, "cli">> : r \in FilterRecords4}

\* The versions get_version returns
ProbedVersions ==
    {get_version(reply).result : reply \in {i \in InfoReplies : get_version(i).panic = NoPanic}}

FilterInit ==
    /\ pc = "polling"
    /\ panic = [msg |-> NoPanic, at |-> NoValue]
    /\ sent = {"INFO server"}
    /\ info_queries = 1
    /\ info = NoInfo
    /\ redis_version \in ProbedVersions
    /\ redis_version_major = IF redis_version.some THEN redis_version.value.major ELSE 0
    /\ all_slowlogs = <<>>
    /\ raw_slowlogs \in {<<r>> : r \in FilterRecords4 \cup FilterRecords6}
    /\ slowlogs = <<>>
    /\ output = <<VersionLine(redis_version)>>

FilterPoll ==
    /\ pc = "polling"
    /\ sent' = sent \cup {"SLOWLOG GET 100"}
    /\ PollBatch(raw_slowlogs)
    /\ UNCHANGED <<info_queries, info, redis_version, redis_version_major>>

FilterNext == FilterPoll

FilterSpec == FilterInit /\ [][FilterNext]_vars

(***************************************************************************)
(* One turn of the loop on a whole reply: the process has started, the      *)
(* server's reply to the first SLOWLOG GET is any batch, and the first turn *)
(* of the loop runs on it.  The reply stays in raw_slowlogs whether the     *)
(* turn ends in the sleep or in a panic.                                    *)
(***************************************************************************)
ReplyInit ==
    /\ pc = "polling"
    /\ panic = [msg |-> NoPanic, at |-> NoValue]
    /\ sent = {"INFO server"}
    /\ info_queries = 1
    /\ info = NoInfo
    /\ redis_version \in ProbedVersions
    /\ redis_version_major = IF redis_version.some THEN redis_version.value.major ELSE 0
    /\ all_slowlogs = <<>>
    /\ raw_slowlogs \in Batches
    /\ slowlogs = <<>>
    /\ output = <<VersionLine(redis_version)>>

ReplyPoll ==
    /\ pc = "polling"
    /\ sent' = sent \cup {"SLOWLOG GET 100"}
    /\ PollBatch(raw_slowlogs)
    /\ UNCHANGED <<info_queries, info, redis_version, redis_version_major>>

ReplyNext == ReplyPoll

ReplySpec == ReplyInit /\ [][ReplyNext]_vars

(***************************************************************************)
(* What the properties speak of                                            *)
(***************************************************************************)
\* The positions of the entry lines printed for an id
LinesOf(out, id) == {i \in 1..Len(out) : out[i].kind = "entry" /\ out[i].id = id}

\* The ids of the map
Registered(map) == DOMAIN map

\* A raw record of the batch just polled that the selected schema decodes,
\* whose first command token is not an ignored command and whose timestamp is
\* a second of the calendar.
Reportable(raw, version) ==
    /\ Decodable(raw, version)
    /\ raw[4] # <<>>
    /\ to_uppercase(raw[4][1]) \notin {TokSlowlogUpper, TokInfoUpper}
    /\ from_timestamp_opt(as_i64(raw[2])).some

\* A step of the loop that polled a batch and reported from it
PollStep == pc = "polling" /\ pc' = "sleep"

(***************************************************************************)
(* C1  At-most-once reporting: whatever the polls returned so far, no id    *)
(* has more than one entry line on standard output.                        *)
(***************************************************************************)
C1_AtMostOnce == \A id \in Ids : Cardinality(LinesOf(output, id)) <= 1

\* The batch just polled holds two different reportable records with the same
\* id, and the id has its one line.
C1_Witness ==
    /\ pc = "sleep"
    /\ \E i, j \in 1..Len(raw_slowlogs) :
          /\ i < j
          /\ raw_slowlogs[i][1] = raw_slowlogs[j][1]
          /\ raw_slowlogs[i] # raw_slowlogs[j]
          /\ Reportable(raw_slowlogs[i], redis_version_major)
          /\ Reportable(raw_slowlogs[j], redis_version_major)
          /\ Cardinality(LinesOf(output, raw_slowlogs[i][1])) = 1

(***************************************************************************)
(* C2  Every new entry is reported in the poll that first returns it: a    *)
(* poll whose batch decodes reports exactly one line for, and registers,   *)
(* every id that was not registered before the poll and that a reportable  *)
(* record of the batch carries; the line is there when the sleep begins.   *)
(***************************************************************************)
C2_NewEntryReportedInItsPoll ==
    [][PollStep =>
         \A i \in 1..Len(raw_slowlogs') :
            LET raw == raw_slowlogs'[i]
            IN (Reportable(raw, redis_version_major) /\ raw[1] \notin Registered(all_slowlogs))
               => /\ LinesOf(output, raw[1]) = {}
                  /\ Cardinality(LinesOf(output', raw[1])) = 1
                  /\ raw[1] \in Registered(all_slowlogs')]_vars

\* A first poll returned ids 1 and 2, both reportable, and both have their line
\* and are registered as the sleep begins.
C2_Witness ==
    /\ pc = "sleep"
    /\ Len(raw_slowlogs) = 2
    /\ raw_slowlogs[1][1] = 1 /\ raw_slowlogs[2][1] = 2
    /\ Reportable(raw_slowlogs[1], redis_version_major)
    /\ Reportable(raw_slowlogs[2], redis_version_major)
    /\ Len(output) = 3
    /\ LinesOf(output, 1) = {2} /\ LinesOf(output, 2) = {3}
    /\ Registered(all_slowlogs) = {1, 2}

(***************************************************************************)
(* C3  Registry monotonicity: no step removes an id from the map.          *)
(***************************************************************************)
C3_RegistryMonotone ==
    [][Registered(all_slowlogs) \subseteq Registered(all_slowlogs')]_vars

\* A poll added an id to a map that already held another one.
C3_Witness ==
    /\ pc = "sleep"
    /\ Registered(all_slowlogs) = {1, 2}
    /\ Len(raw_slowlogs) = 1
    /\ Reportable(raw_slowlogs[1], redis_version_major)

(***************************************************************************)
(* C4  Ignore filter: a decoded record is passed on (returned by           *)
(* get_slowlogs and, being new and of a valid timestamp here, reported) if *)
(* and only if its first command token, upper-cased, is not exactly        *)
(* SLOWLOG or INFO; an excluded record is not reported.  The other tokens  *)
(* of the command play no part.                                            *)
(***************************************************************************)
Excluded(cmd) == to_uppercase(cmd[1]) \in {TokSlowlogUpper, TokInfoUpper}

C4_IgnoreFilter ==
    pc = "sleep" =>
        \A i \in 1..Len(raw_slowlogs) :
           LET raw == raw_slowlogs[i]
               passed == \E j \in 1..Len(slowlogs) :
                            slowlogs[j].id = raw[1] /\ slowlogs[j].cmd = raw[4]
               printed == \E k \in LinesOf(output, raw[1]) : output[k].cmd = raw[4]
           IN /\ passed <=> ~Excluded(raw[4])
              /\ printed <=> ~Excluded(raw[4])

\* The reply was one record whose command is SlowLog GET: nothing was passed
\* on and nothing was printed for it.
C4_Witness ==
    /\ pc = "sleep"
    /\ Len(raw_slowlogs) = 1
    /\ raw_slowlogs[1][4] = <<TokSlowlogMixed, TokGet>>
    /\ slowlogs = <<>>
    /\ Len(output) = 1

(***************************************************************************)
(* C5  Version-gated schema selection: with a probed major version of 4 or *)
(* more every record of a poll that is reported from has 6 fields and its  *)
(* entry carries the record's address and client name; with a major below  *)
(* 4 or no version every such record has 4 fields and its entry has an     *)
(* empty address and client name; a record of another arity aborts the     *)
(* process, so no line and no map entry carries coerced fields.            *)
(***************************************************************************)
SelectedArity == IF redis_version.some /\ redis_version.value.major >= 4 THEN 6 ELSE 4

FieldsOf(raw) ==
    [id |-> raw[1], timestamp |-> raw[2], exec_time |-> from_micros(raw[3]),
     cmd |-> raw[4],
     address |-> IF Len(raw) = 6 THEN raw[5] ELSE "",
     client_name |-> IF Len(raw) = 6 THEN raw[6] ELSE ""]

C5_SchemaByVersion ==
    /\ pc = "sleep" =>
          /\ \A i \in 1..Len(raw_slowlogs) : Len(raw_slowlogs[i]) = SelectedArity
          /\ \A j \in 1..Len(slowlogs) :
                \E i \in 1..Len(raw_slowlogs) : slowlogs[j] = FieldsOf(raw_slowlogs[i])
    /\ (pc = "aborted" /\ panic.msg = "called Result::unwrap() on an Err value")
          => Len(panic.at) # SelectedArity
    /\ \A k \in 1..Len(output) :
          output[k].kind = "entry" =>
             IF SelectedArity = 6
             THEN output[k].address = Address /\ output[k].name = "cli"
             ELSE output[k].address = "" /\ output[k].name = ""
    /\ \A id \in Registered(all_slowlogs) :
          IF SelectedArity = 6
          THEN all_slowlogs[id].address = Address /\ all_slowlogs[id].client_name = "cli"
          ELSE all_slowlogs[id].address = "" /\ all_slowlogs[id].client_name = ""

\* Under the extended schema a poll reported an entry with its address, and a
\* later poll aborted on a 4-field record.
C5_Witness ==
    /\ pc = "aborted"
    /\ SelectedArity = 6
    /\ panic.at \in RawRecords4
    /\ \E k \in 1..Len(output) : output[k].kind = "entry" /\ output[k].address = Address

(***************************************************************************)
(* C6  Timestamp-failure isolation: a poll whose batch holds a record with *)
(* an invalid timestamp reaches the sleep, having reported and registered  *)
(* every new reportable entry of the batch, before or after the invalid    *)
(* record, and every line it printed is the line of a reportable record of *)
(* the batch; a poll never aborts on a timestamp.                          *)
(***************************************************************************)
InvalidTimestamp(raw, version) ==
    /\ Decodable(raw, version)
    /\ raw[4] # <<>>
    /\ ~Excluded(raw[4])
    /\ ~from_timestamp_opt(as_i64(raw[2])).some

C6_TimestampIsolation ==
    [][/\ (PollStep /\ \E i \in 1..Len(raw_slowlogs') :
                          InvalidTimestamp(raw_slowlogs'[i], redis_version_major))
          => /\ \A i \in 1..Len(raw_slowlogs') :
                   LET raw == raw_slowlogs'[i]
                   IN (Reportable(raw, redis_version_major)
                       /\ raw[1] \notin Registered(all_slowlogs))
                      => /\ Cardinality(LinesOf(output', raw[1])) = 1
                         /\ raw[1] \in Registered(all_slowlogs')
             /\ \A k \in (Len(output) + 1)..Len(output') :
                   \E i \in 1..Len(raw_slowlogs') :
                      /\ Reportable(raw_slowlogs'[i], redis_version_major)
                      /\ output'[k].id = raw_slowlogs'[i][1]
                      /\ output'[k].dt = as_i64(raw_slowlogs'[i][2])
             /\ SubSeq(output', 1, Len(output)) = output
       /\ (pc = "polling" /\ pc' = "aborted")
          => \/ panic'.msg = "fail slowlog command"
             \/ ~Decodable(panic'.at, redis_version_major)
             \/ panic'.at[4] = <<>>]_vars

\* The batch was a record of id 1 with an invalid timestamp and then a valid
\* record of id 2: only id 2 has a line and is registered.
C6_Witness ==
    /\ pc = "sleep"
    /\ Len(raw_slowlogs) = 2
    /\ raw_slowlogs[1][1] = 1 /\ raw_slowlogs[2][1] = 2
    /\ InvalidTimestamp(raw_slowlogs[1], redis_version_major)
    /\ Reportable(raw_slowlogs[2], redis_version_major)
    /\ LinesOf(output, 1) = {} /\ LinesOf(output, 2) = {2}
    /\ Registered(all_slowlogs) = {2}

(***************************************************************************)
(* C7  A skipped entry is not remembered: a poll in which an unregistered  *)
(* id comes only with invalid timestamps (or ignored commands) leaves the  *)
(* id unregistered and prints nothing for it, and a poll that returns an   *)
(* unregistered id in a reportable record (whatever earlier polls skipped) *)
(* reports it once.                                                        *)
(***************************************************************************)
C7_SkippedNotRemembered ==
    [][PollStep =>
         \A id \in Ids \ Registered(all_slowlogs) :
            LET mine == {i \in 1..Len(raw_slowlogs') : raw_slowlogs'[i][1] = id}
            IN IF \E i \in mine : Reportable(raw_slowlogs'[i], redis_version_major)
               THEN /\ id \in Registered(all_slowlogs')
                    /\ Cardinality(LinesOf(output', id)) = 1
               ELSE /\ id \notin Registered(all_slowlogs')
                    /\ LinesOf(output', id) = {}]_vars

\* Id 1 was polled with an invalid timestamp only: it is not registered and
\* has no line, while id 2 has been reported.
C7_Witness ==
    /\ pc = "sleep"
    /\ raw_slowlogs # <<>>
    /\ \A i \in 1..Len(raw_slowlogs) :
          raw_slowlogs[i][1] = 1 /\ InvalidTimestamp(raw_slowlogs[i], redis_version_major)
    /\ 1 \notin Registered(all_slowlogs)
    /\ LinesOf(output, 1) = {}
    /\ 2 \in Registered(all_slowlogs)

(***************************************************************************)
(* C8  Malformed version is fatal.                                         *)
(***************************************************************************)
\* A non-negative integer as written: decimal digits, possibly after a '+'.
IsInteger(s) ==
    LET body == IF s # <<>> /\ Head(s) = "+" THEN Tail(s) ELSE s
    IN body # <<>> /\ \A i \in 1..Len(body) : \E d \in 1..Len(Digits) : body[i] = Digits[d]

\* Exactly three dot-separated non-negative integers
ThreeIntegers(s) ==
    LET v == split(s)
    IN Len(v) = 3 /\ \A i \in 1..3 : IsInteger(v[i])

\* Fewer than three dot-separated parts, or a first, second or third part that
\* is no non-negative integer
FirstThreeMalformed(s) ==
    LET v == split(s)
    IN Len(v) < 3 \/ \E i \in 1..3 : ~IsInteger(v[i])

\* The process aborts in get_version: no Version, no schema, no line, no poll.
AbortsAtStartup ==
    /\ pc' = "aborted"
    /\ redis_version' = None
    /\ redis_version_major' = 0
    /\ output' = <<>>
    /\ "SLOWLOG GET 100" \notin sent'

\* C8 as claimed: a non-empty version value that is not exactly three
\* dot-separated non-negative integers (fewer parts, more parts, or a
\* non-numeric part) aborts the process at startup.
C8_AsClaimed ==
    [][(pc = "version" /\ VersionStr(info) # <<>> /\ ~ThreeIntegers(VersionStr(info)))
       => AbortsAtStartup]_vars

\* C8 as amended: a non-empty version value with fewer than three
\* dot-separated parts, or whose first, second or third part is not a
\* non-negative integer, aborts the process at startup: get_version returns
\* no Version, no schema is selected, nothing is printed and no poll is
\* issued.  (Parts after the third are not looked at.)
C8_MalformedVersionFatal ==
    [][(pc = "version" /\ VersionStr(info) # <<>> /\ FirstThreeMalformed(VersionStr(info)))
       => AbortsAtStartup]_vars

\* The server reported 6.2.x and the process aborted on the patch part before
\* any poll.
C8_Witness ==
    /\ pc = "aborted"
    /\ info.has_version
    /\ info.redis_version = <<"6", ".", "2", ".", "x">>
    /\ panic.msg = "invalid patch version"
    /\ output = <<>>
    /\ sent = {"INFO server"}

(***************************************************************************)
(* C9  Missing version is not an error: on a reply without the version key *)
(* or with an empty version, get_version returns no Version, the version   *)
(* line says unknown, the major is 0, the 4-field schema is selected and   *)
(* the process goes on to Polling.                                         *)
(***************************************************************************)
C9_MissingVersionIsLegacy ==
    [][(pc = "version" /\ (~info.has_version \/ info.redis_version = <<>>))
       => /\ pc' = "polling"
          /\ panic'.msg = NoPanic
          /\ redis_version' = None
          /\ redis_version_major' = 0
          /\ SchemaArity(redis_version_major') = 4
          /\ output' = <<[kind |-> "version", known |-> FALSE]>>]_vars

\* With no version the process polled and reported a 4-field record after the
\* line saying unknown.
C9_Witness ==
    /\ pc = "sleep"
    /\ redis_version = None
    /\ output[1] = [kind |-> "version", known |-> FALSE]
    /\ Len(raw_slowlogs) = 1
    /\ Len(raw_slowlogs[1]) = 4
    /\ Len(output) = 2

(***************************************************************************)
(* C10  Fatal errors stop everything: every failure (of the connection, of  *)
(* the INFO query, of the SLOWLOG query, of the decoding of a record)      *)
(* leaves the process aborted, and an aborted process takes no step: it    *)
(* prints nothing, leaves the map alone and sends no query.                *)
(***************************************************************************)
C10_FatalStops ==
    [][/\ panic'.msg # NoPanic => pc' = "aborted"
       /\ pc = "aborted" => UNCHANGED <<panic, sent, info_queries, all_slowlogs, output>>]_vars

\* After a poll that reported an entry, the next SLOWLOG query failed.
C10_Witness ==
    /\ pc = "aborted"
    /\ panic.msg = "fail slowlog command"
    /\ Len(output) >= 2
    /\ all_slowlogs # <<>>

(***************************************************************************)
(* C11  The poll loop never exits on its own: every poll that does not     *)
(* abort is followed by the sleep, every sleep by another poll, startup    *)
(* leads to the loop or to an abort, and so either polls occur infinitely  *)
(* often or the process has aborted.                                       *)
(***************************************************************************)
C11_LoopForever ==
    /\ [](pc \in {"connect", "probe", "version"} => <>(pc \in {"polling", "aborted"}))
    /\ [](pc = "polling" => <>(pc \in {"sleep", "aborted"}))
    /\ [](pc = "sleep" => <>(pc = "polling"))
    /\ ([]<>(pc = "polling") \/ <>[](pc = "aborted"))

\* The loop is back at its head after a poll that fetched and a sleep.
C11_Witness ==
    /\ pc = "polling"
    /\ "SLOWLOG GET 100" \in sent
    /\ raw_slowlogs = <<>>
    /\ panic.msg = NoPanic

(***************************************************************************)
(* C12  Report ordering: a poll appends its lines after the lines of the   *)
(* polls before it, and the lines of one poll are in the order of the      *)
(* batch: of two records that are each the first reportable record of an   *)
(* unregistered id, the one earlier in the batch has the earlier line.     *)
(***************************************************************************)
\* Record i is the first reportable record of its id in the batch.
FirstOfItsId(batch, i, version) ==
    /\ Reportable(batch[i], version)
    /\ \A h \in 1..(i - 1) :
          batch[h][1] = batch[i][1] => ~Reportable(batch[h], version)

C12_ReportOrder ==
    [][PollStep =>
         /\ Len(output') >= Len(output)
         /\ SubSeq(output', 1, Len(output)) = output
         /\ \A a, b \in 1..Len(raw_slowlogs') :
               (/\ a < b
                /\ FirstOfItsId(raw_slowlogs', a, redis_version_major)
                /\ FirstOfItsId(raw_slowlogs', b, redis_version_major)
                /\ raw_slowlogs'[a][1] \notin Registered(all_slowlogs)
                /\ raw_slowlogs'[b][1] \notin Registered(all_slowlogs))
               => \E k, l \in (Len(output) + 1)..Len(output') :
                     /\ k < l
                     /\ output'[k].id = raw_slowlogs'[a][1]
                     /\ output'[l].id = raw_slowlogs'[b][1]]_vars

\* The batch was id 2 and then id 1, and so are the lines.
C12_Witness ==
    /\ pc = "sleep"
    /\ Len(raw_slowlogs) = 2
    /\ raw_slowlogs[1][1] = 2 /\ raw_slowlogs[2][1] = 1
    /\ Len(output) = 3
    /\ output[2].id = 2 /\ output[3].id = 1

(***************************************************************************)
(* C13  The printed execution time is the entry's execution time in        *)
(* milliseconds: for a duration of d microseconds the line shows d / 1000  *)
(* to one decimal place, also for d of one second or more.  (Stated in     *)
(* tenths of a millisecond: d / 100, rounded.)                             *)
(***************************************************************************)
\* The microseconds of a Duration
Micros(exec_time) == exec_time.secs * 1000000 + exec_time.nanos \div 1000

C13_AsClaimed ==
    \A id \in Registered(all_slowlogs) :
       \A k \in LinesOf(output, id) :
          output[k].time = (Micros(all_slowlogs[id].exec_time) + 50) \div 100

(***************************************************************************)
(* C14  As claimed: the records of a batch go through decoding, filtering, *)
(* the check against the map and the report one by one, so that when the   *)
(* process aborts on a malformed record or on a record with no command     *)
(* token, every reportable record before it in the batch has its line and  *)
(* is in the map.                                                          *)
(***************************************************************************)
\* A record get_slowlogs panics on
Fails(raw, version) == ~Decodable(raw, version) \/ raw[4] = <<>>

\* Record i is reportable and is followed by the record the poll aborted on.
ReportableBeforeFailure(batch, i, version) ==
    /\ Reportable(batch[i], version)
    /\ \A h \in 1..i : ~Fails(batch[h], version)
    /\ \E j \in (i + 1)..Len(batch) : Fails(batch[j], version)

C14_AsClaimed ==
    pc = "aborted" =>
       \A i \in 1..Len(raw_slowlogs) :
          ReportableBeforeFailure(raw_slowlogs, i, redis_version_major)
          => /\ raw_slowlogs[i][1] \in Registered(all_slowlogs)
             /\ LinesOf(output, raw_slowlogs[i][1]) # {}

(***************************************************************************)
(* C14  The batch is decoded and filtered as a whole before anything of it *)
(* is reported: a first poll that aborts on a record has printed no entry  *)
(* line and registered no id, whatever records came before that record in  *)
(* the batch; a first poll that reaches the sleep has decoded every record *)
(* of the batch and has a line and a map entry for every reportable one.   *)
(***************************************************************************)
C14_BatchDecodedFirst ==
    /\ pc = "aborted" =>
          /\ \E j \in 1..Len(raw_slowlogs) :
                /\ Fails(raw_slowlogs[j], redis_version_major)
                /\ panic.at = raw_slowlogs[j]
          /\ output = <<VersionLine(redis_version)>>
          /\ all_slowlogs = <<>>
          /\ slowlogs = <<>>
    /\ pc = "sleep" =>
          \A i \in 1..Len(raw_slowlogs) :
             /\ ~Fails(raw_slowlogs[i], redis_version_major)
             /\ Reportable(raw_slowlogs[i], redis_version_major)
                => /\ raw_slowlogs[i][1] \in Registered(all_slowlogs)
                   /\ LinesOf(output, raw_slowlogs[i][1]) # {}

\* The poll aborted on the second record; the first one was reportable and
\* has no line.
C14_Witness ==
    /\ pc = "aborted"
    /\ Len(raw_slowlogs) = 2
    /\ ReportableBeforeFailure(raw_slowlogs, 1, redis_version_major)
    /\ ~Decodable(raw_slowlogs[2], redis_version_major)
    /\ LinesOf(output, raw_slowlogs[1][1]) = {}
    /\ all_slowlogs = <<>>

(***************************************************************************)
(* C15  As claimed: the id of an entry that the ignore filter drops is put *)
(* into the map by the poll that fetched it.                               *)
(***************************************************************************)
\* A record that decodes and that the filter of line 80 drops
IgnoredRecord(raw, version) ==
    /\ Decodable(raw, version)
    /\ raw[4] # <<>>
    /\ Excluded(raw[4])

C15_AsClaimed ==
    [][PollStep =>
         \A i \in 1..Len(raw_slowlogs') :
            IgnoredRecord(raw_slowlogs'[i], redis_version_major)
            => raw_slowlogs'[i][1] \in Registered(all_slowlogs')]_vars

(***************************************************************************)
(* C15  The id of an ignored entry is not registered: an unregistered id   *)
(* whose records in the batch are all ignored is still unregistered after  *)
(* the poll and has no line; a reportable record that follows an ignored    *)
(* record of the same unregistered id is reported and registered; and no   *)
(* entry of the map has an ignored command.                                *)
(***************************************************************************)
C15_IgnoredNotRegistered ==
    [][PollStep =>
         /\ \A id \in Ids :
               (/\ id \notin Registered(all_slowlogs)
                /\ \E i \in 1..Len(raw_slowlogs') : raw_slowlogs'[i][1] = id
                /\ \A i \in 1..Len(raw_slowlogs') :
                      raw_slowlogs'[i][1] = id
                      => IgnoredRecord(raw_slowlogs'[i], redis_version_major))
               => /\ id \notin Registered(all_slowlogs')
                  /\ LinesOf(output', id) = {}
         /\ \A i, j \in 1..Len(raw_slowlogs') :
               (/\ i < j
                /\ IgnoredRecord(raw_slowlogs'[i], redis_version_major)
                /\ raw_slowlogs'[j][1] = raw_slowlogs'[i][1]
                /\ Reportable(raw_slowlogs'[j], redis_version_major)
                /\ raw_slowlogs'[j][1] \notin Registered(all_slowlogs))
               => /\ raw_slowlogs'[j][1] \in Registered(all_slowlogs')
                  /\ Cardinality(LinesOf(output', raw_slowlogs'[j][1])) = 1
         /\ \A id \in Registered(all_slowlogs') : ~Excluded(all_slowlogs'[id].cmd)]_vars

\* The batch was an ignored record and then a reportable record of the same
\* id: the id has its line.
C15_Witness ==
    /\ pc = "sleep"
    /\ Len(raw_slowlogs) = 2
    /\ IgnoredRecord(raw_slowlogs[1], redis_version_major)
    /\ raw_slowlogs[2][1] = raw_slowlogs[1][1]
    /\ Reportable(raw_slowlogs[2], redis_version_major)
    /\ LinesOf(output, raw_slowlogs[1][1]) = {Len(output)}
    /\ ~Excluded(all_slowlogs[raw_slowlogs[1][1]].cmd)

(***************************************************************************)
(* C16  The map is the report history: in every state the ids of the map   *)
(* are exactly the ids that have an entry line on the output, every key of *)
(* the map holds a slowlog with that id, and the line of an id shows the   *)
(* slowlog the map holds for it.                                           *)
(***************************************************************************)
\* The ids that have an entry line
ReportedIds(out) == {out[k].id : k \in {i \in 1..Len(out) : out[i].kind = "entry"}}

C16_RegistryIsReportHistory ==
    /\ Registered(all_slowlogs) = ReportedIds(output)
    /\ \A id \in Registered(all_slowlogs) :
          /\ all_slowlogs[id].id = id
          /\ \A k \in LinesOf(output, id) :
                /\ output[k].cmd = all_slowlogs[id].cmd
                /\ output[k].dt = as_i64(all_slowlogs[id].timestamp)

\* Two ids were reported by two polls, and the map holds those two.
C16_Witness ==
    /\ pc = "sleep"
    /\ Len(raw_slowlogs) = 1
    /\ Registered(all_slowlogs) = {1, 2}
    /\ ReportedIds(output) = {1, 2}
    /\ Len(output) = 3
    /\ output[3].id = raw_slowlogs[1][1]

(***************************************************************************)
(* C17  The version is probed once, before the first SLOWLOG GET: INFO is  *)
(* sent at most once, and exactly once before any SLOWLOG GET; the version *)
(* line is the first line of the output and the only one of its kind; and  *)
(* once the loop is entered no step sends INFO or changes the version or   *)
(* the major number the schema is selected by, so that every record of     *)
(* every completed poll has the arity of the one schema selected at start. *)
(***************************************************************************)
C17_ProbedOnce ==
    [][/\ info_queries' <= 1
       /\ pc' \in {"connect", "probe"} => "SLOWLOG GET 100" \notin sent'
       /\ "SLOWLOG GET 100" \in sent' => info_queries' = 1 /\ "INFO server" \in sent'
       /\ output' # <<>> =>
             /\ output'[1].kind = "version"
             /\ \A k \in 2..Len(output') : output'[k].kind = "entry"
       /\ pc \in {"polling", "sleep"} =>
             /\ info_queries' = info_queries
             /\ redis_version' = redis_version
             /\ redis_version_major' = redis_version_major
             /\ output'[1] = VersionLine(redis_version)
       /\ PollStep =>
             \A i \in 1..Len(raw_slowlogs') :
                Len(raw_slowlogs'[i]) = SchemaArity(redis_version_major)]_vars

\* Two polls under the extended schema reported one entry each, after one
\* probe.
C17_Witness ==
    /\ pc = "sleep"
    /\ info_queries = 1
    /\ redis_version.some /\ redis_version_major = 4
    /\ Len(raw_slowlogs) = 1 /\ Len(raw_slowlogs[1]) = 6
    /\ Len(output) = 3
    /\ output[1].kind = "version"
    /\ output[2].address = Address /\ output[3].address = Address

(***************************************************************************)
(* C18  As claimed: an entry whose unsigned 64-bit timestamp is not a      *)
(* second of the calendar, a timestamp above the signed 64-bit maximum     *)
(* among them, is neither reported nor registered: every slowlog of the    *)
(* map and every reported record has a timestamp that, as the unsigned     *)
(* number the server sent, is a valid instant.                             *)
(***************************************************************************)
\* The unsigned timestamp is a second NaiveDateTime can represent.
ValidInstant(timestamp) == LimbsLeq(timestamp, MaxTimestampSecs)

C18_AsClaimed ==
    /\ \A id \in Registered(all_slowlogs) : ValidInstant(all_slowlogs[id].timestamp)
    /\ pc = "sleep" =>
          \A i \in 1..Len(raw_slowlogs) :
             (/\ Decodable(raw_slowlogs[i], redis_version_major)
              /\ ~ValidInstant(raw_slowlogs[i][2]))
             => \A k \in LinesOf(output, raw_slowlogs[i][1]) :
                   output[k].dt # as_i64(raw_slowlogs[i][2])

(***************************************************************************)
(* C19  A record with the arity of the selected schema and no command      *)
(* token aborts the process in the filter: a first poll whose batch holds  *)
(* such a record ends aborted, with the index panic on that record when    *)
(* every record before it decodes and has a command, with no slowlog       *)
(* returned, no entry line printed and no id registered; and no slowlog    *)
(* that is returned, registered or printed has an empty command.           *)
(***************************************************************************)
\* A record the schema decodes into a slowlog with an empty cmd
NoCommand(raw, version) == Decodable(raw, version) /\ raw[4] = <<>>

C19_EmptyCommandAborts ==
    /\ (pc # "polling" /\ \E i \in 1..Len(raw_slowlogs) :
                             NoCommand(raw_slowlogs[i], redis_version_major))
       => /\ pc = "aborted"
          /\ slowlogs = <<>>
          /\ output = <<VersionLine(redis_version)>>
          /\ all_slowlogs = <<>>
          /\ \A i \in 1..Len(raw_slowlogs) :
                (/\ NoCommand(raw_slowlogs[i], redis_version_major)
                 /\ \A h \in 1..(i - 1) : ~Fails(raw_slowlogs[h], redis_version_major))
                => /\ panic.msg = "index out of bounds"
                   /\ panic.at = raw_slowlogs[i]
    /\ \A k \in 1..Len(slowlogs) : slowlogs[k].cmd # <<>>
    /\ \A id \in Registered(all_slowlogs) : all_slowlogs[id].cmd # <<>>
    /\ \A k \in 2..Len(output) : output[k].cmd # <<>>

\* The batch was a reportable record and then a record without command: the
\* poll aborted on the second and nothing was printed for the first.
C19_Witness ==
    /\ pc = "aborted"
    /\ panic.msg = "index out of bounds"
    /\ Len(raw_slowlogs) = 2
    /\ Reportable(raw_slowlogs[1], redis_version_major)
    /\ NoCommand(raw_slowlogs[2], redis_version_major)
    /\ panic.at = raw_slowlogs[2]
    /\ Len(output) = 1

(***************************************************************************)
(* C20  A record that is not reported has no effect: over a poll, the      *)
(* slowlog stored under an id that was registered before stays the same    *)
(* and the id gets no further line; a newly registered id holds its first  *)
(* reportable record of the batch, whatever records of that id follow; the *)
(* poll prints one line per newly registered id and nothing else; and a    *)
(* poll whose batch has no reportable record of an unregistered id leaves  *)
(* the output and the map as they were.                                    *)
(***************************************************************************)
\* The records of the batch that are reported: first reportable record of an
\* id that is not in the map.
NewlyReported(batch, map, version) ==
    {i \in 1..Len(batch) :
        FirstOfItsId(batch, i, version) /\ batch[i][1] \notin Registered(map)}

C20_UnreportedChangesNothing ==
    [][PollStep =>
         LET new == NewlyReported(raw_slowlogs', all_slowlogs, redis_version_major)
         IN /\ \A id \in Registered(all_slowlogs) :
                  /\ all_slowlogs'[id] = all_slowlogs[id]
                  /\ LinesOf(output', id) = LinesOf(output, id)
            /\ Registered(all_slowlogs') =
                  Registered(all_slowlogs) \cup {raw_slowlogs'[i][1] : i \in new}
            /\ \A i \in new : all_slowlogs'[raw_slowlogs'[i][1]] = FieldsOf(raw_slowlogs'[i])
            /\ Len(output') = Len(output) + Cardinality(new)
            /\ new = {} => output' = output /\ all_slowlogs' = all_slowlogs]_vars

\* A poll fetched a reportable record whose id was registered with other
\* fields: the map still holds the first one and no line was added.
C20_Witness ==
    /\ pc = "sleep"
    /\ Len(raw_slowlogs) = 1
    /\ Reportable(raw_slowlogs[1], redis_version_major)
    /\ raw_slowlogs[1][1] \in Registered(all_slowlogs)
    /\ all_slowlogs[raw_slowlogs[1][1]] # FieldsOf(raw_slowlogs[1])
    /\ Cardinality(LinesOf(output, raw_slowlogs[1][1])) = 1
    /\ \A k \in LinesOf(output, raw_slowlogs[1][1]) : output[k].cmd # raw_slowlogs[1][4]

====
